---------------------------- MODULE Spec2Model ----------------------------
(***************************************************************************)
(* Razorpay webhook handler (src/backend/app.py).                          *)
(*                                                                         *)
(* The process holds read-only configuration (the webhook secret and the   *)
(* Firestore handle); requests are handled concurrently and share only the *)
(* document store (collections `assets` and `purchases`).  Each request    *)
(* runs razorpay_webhook(): everything up to the first store access is     *)
(* local computation on the request and the immutable configuration, so it *)
(* is one step; the store lookup is a second step and the store write,     *)
(* with the receipt id (clock + random suffix) generated for it, a third.  *)
(* These steps interleave with other requests, with edits of the item and  *)
(* with the clock.                                                         *)
(*                                                                         *)
(* Contact form endpoint (src/app.py): send_contact_emails() sends a       *)
(* confirmation to the submitter and a notification to the admin through   *)
(* the email provider; it is specified on its own (ContactSpec).           *)
(***************************************************************************)
EXTENDS Naturals, Sequences, FiniteSets

\* ------------------------------------------------------------------ bounds
NumRequests == 2        \* requests delivered in one behaviour
MaxClock    == 1        \* the clock (whole seconds) runs over 0..MaxClock
MaxSuffix   == 1        \* random suffixes are numbered 0..MaxSuffix
NumContacts == 2        \* contact form submissions in one behaviour

Requests == 1..NumRequests
Clock    == 0..MaxClock
Suffixes == 0..MaxSuffix
Contacts == 1..NumContacts

\* ------------------------------------------------- Python None / dict.get
None    == <<>>
Some(v) == <<v>>
IsNone(o) == o = <<>>
\* dict.get(key, default) on an optional field
GetOr(o, default) == IF IsNone(o) THEN default ELSE o[1]
\* Python truthiness of an optional string: None and '' are falsy
Truthy(o) == ~IsNone(o) /\ o[1] # ""

\* --------------------------------------------------------------- HMAC, hex
\* A signature header value.  kind "empty" is the absent/empty header,
\* "hex" is the hexdigest of HMAC-SHA256 under `key` over `msg` (HMAC is
\* taken as injective in key and message), "nonascii" is a header value
\* holding a character outside ASCII (WSGI decodes header bytes as latin-1).
EmptySig    == [kind |-> "empty", key |-> "", msg |-> ""]
NonAsciiSig == [kind |-> "nonascii", key |-> "", msg |-> ""]
HMAC(secret, payload) == [kind |-> "hex", key |-> secret, msg |-> payload]

\* secrets a sender may sign with; the configured one is "" (unset) or the
\* first
Secrets           == {"", "whsec_A", "whsec_B"}
ConfiguredSecrets == {"", "whsec_A"}

\* a comparison that looks at the signed message only, not at the key
compare_digest_message_only(a, b) ==
    IF a.kind = "nonascii" \/ b.kind = "nonascii" THEN "TypeError"
    ELSE IF a.kind = b.kind /\ a.msg = b.msg THEN "True" ELSE "False"

\* hmac.compare_digest(a, b) on two str: TypeError when either holds a
\* non-ASCII character, else equality.
compare_digest(a, b) ==
    IF a.kind = "nonascii" \/ b.kind = "nonascii" THEN "TypeError"
    ELSE IF a = b THEN "True" ELSE "False"

\* a verifier without the `if not secret` guard: an unset secret is used as
\* the (empty) key
verify_fail_open(payload, signature, secret) ==
    compare_digest(HMAC(secret, payload), signature)

\* a verifier that computes the digest but never compares it
verify_no_compare(payload, signature, secret) ==
    IF secret = "" THEN "False" ELSE "True"

\* verify_webhook_signature(payload, signature, secret)
verify_webhook_signature(payload, signature, secret) ==
    IF secret = "" THEN "False"
    ELSE compare_digest(HMAC(secret, payload), signature)

\* ------------------------------------------------------------ request bodies
\* Raw bodies are named; Decode gives what json decoding of the bytes yields.
Bodies == {"B_ok", "B_nonotes", "B_emptyaid", "B_failed",
           "B_noevent", "B_notjson", "B_badnotes"}

\* notes: kind "absent" (key missing), "mapping" (a JSON object, asset_id
\* optional) or "list" (a JSON array, as the gateway sends for empty notes)
NoNotes == [kind |-> "absent", asset_id |-> None]
EmptyEntity ==
    [id |-> None, amount |-> None, currency |-> None, email |-> None,
     notes |-> NoNotes]

Decode(body) ==
    CASE body = "B_ok" ->
           [valid |-> TRUE, event |-> Some("payment.captured"),
            entity |-> [id |-> Some("pay_1"), amount |-> Some(50000),
                        currency |-> Some("USD"), email |-> Some("a@b.com"),
                        notes |-> [kind |-> "mapping",
                                   asset_id |-> Some("asset_42")]]]
      [] body = "B_nonotes" ->
           [valid |-> TRUE, event |-> Some("payment.captured"),
            entity |-> [id |-> Some("pay_3"), amount |-> Some(50000),
                        currency |-> Some("INR"), email |-> None,
                        notes |-> NoNotes]]
      [] body = "B_emptyaid" ->
           [valid |-> TRUE, event |-> Some("payment.captured"),
            entity |-> [id |-> Some("pay_4"), amount |-> Some(50000),
                        currency |-> Some("INR"), email |-> None,
                        notes |-> [kind |-> "mapping",
                                   asset_id |-> Some("")]]]
      [] body = "B_failed" ->
           [valid |-> TRUE, event |-> Some("payment.failed"),
            entity |-> [EmptyEntity EXCEPT !.id = Some("pay_5")]]
      [] body = "B_noevent" ->
           [valid |-> TRUE, event |-> None, entity |-> EmptyEntity]
      [] body = "B_badnotes" ->
           [valid |-> TRUE, event |-> Some("payment.captured"),
            entity |-> [id |-> Some("pay_6"), amount |-> Some(50000),
                        currency |-> Some("INR"), email |-> None,
                        notes |-> [kind |-> "list", asset_id |-> None]]]
      [] OTHER ->
           [valid |-> FALSE, event |-> None, entity |-> EmptyEntity]

\* request.get_json(): raises (415, or returns None on which data.get then
\* raises) unless the Content-Type is JSON, raises BadRequest on invalid JSON.
get_json_raises(body, ctype) ==
    ctype # "application/json" \/ ~Decode(body).valid

\* ----------------------------------------------------------------- the store
AssetIds == {"asset_42"}

\* Item documents; fields are optional because the collection is schemaless
FullDoc    == [title |-> Some("Pack v1"), price |-> Some("499"),
               downloadLink |-> Some("https://dl/1")]
EditedDoc  == [title |-> Some("Pack v2"), price |-> None,
               downloadLink |-> None]
AssetDocs  == {FullDoc, EditedDoc}

\* receipt ids: "RCP-<hex seconds>-<suffix>"
ReceiptId(ts, suffix) == [ts |-> ts, suffix |-> suffix]
ReceiptIds == {ReceiptId(t, s) : t \in Clock, s \in Suffixes}
NoReceipt  == [ts |-> 0, suffix |-> MaxSuffix + 1]

\* generate_receipt_id(): the clock second and a random suffix
generate_receipt_id(t, suffix) == ReceiptId(t, suffix)

\* ---------------------------------------------------------------- responses
NoResponse == [status |-> 0, key |-> "", text |-> "", receiptId |-> None]
ErrorResponse(status, text) ==
    [status |-> status, key |-> "error", text |-> text, receiptId |-> None]
MessageResponse(text) ==
    [status |-> 200, key |-> "message", text |-> text, receiptId |-> None]
SuccessResponse(rid) ==
    [status |-> 200, key |-> "success",
     text |-> "Purchase recorded successfully", receiptId |-> Some(rid)]

NoPurchaseData == <<>>

VARIABLES
    RAZORPAY_WEBHOOK_SECRET,  \* configuration, fixed at startup
    db,                       \* TRUE iff the Firestore handle was initialised
    assets,                   \* collection assets: id -> <<>> or <<doc>>
    purchases,                \* collection purchases: receipt id -> <<>> or <<doc>>
    now,                      \* int(time.time())
    reqs,                     \* per request: inputs, locals, position, response
    contacts,                 \* per contact submission: form, position, response
    outbox                    \* emails the provider accepted

hookVars == <<RAZORPAY_WEBHOOK_SECRET, db, assets, purchases, now, reqs>>
mailVars == <<contacts, outbox>>
vars == <<RAZORPAY_WEBHOOK_SECRET, db, assets, purchases, now, reqs,
          contacts, outbox>>

IdleRequest ==
    [pc |-> "idle", body |-> "B_ok", signature |-> EmptySig,
     ctype |-> "application/json",
     redelivery |-> FALSE,
     bodyRead |-> FALSE, verifyResult |-> "", parsed |-> FALSE,
     event |-> None, payment |-> EmptyEntity, asset_id |-> None,
     asset_data |-> None, receipt_id |-> NoReceipt,
     purchase_data |-> NoPurchaseData,
     lookups |-> 0, writes |-> 0, resp |-> NoResponse]

\* ------------------------------------------------------ contact form data
\* ContactFormRequest, as validated by the framework before the handler runs
ContactForms ==
    [from_name : {"Ana"}, from_email : {"a@b.com", "c@d.org"},
     subject : {"Hi"}, message : {"Hello"}, email_enabled : BOOLEAN]

\* str(e) of the exceptions resend.Emails.send may raise
SendErrors == {"rate limit exceeded", "invalid api key"}

\* ContactFormResponse(success, message, skipped = False, error = None),
\* returned by the handler and so answered with HTTP 200
ContactFormResponse(success, message, skipped, error) ==
    [http |-> 200, success |-> success, message |-> message,
     skipped |-> skipped, error |-> error]
NoContactResponse ==
    [http |-> 0, success |-> FALSE, message |-> "", skipped |-> FALSE,
     error |-> None]

IdleContact ==
    [pc |-> "idle",
     form |-> [from_name |-> "Ana", from_email |-> "a@b.com",
               subject |-> "Hi", message |-> "Hello", email_enabled |-> TRUE],
     userSends |-> 0, adminSends |-> 0, resp |-> NoContactResponse]

InitContacts ==
    /\ contacts = [c \in Contacts |-> IdleContact]
    /\ outbox = {}

Init ==
    /\ RAZORPAY_WEBHOOK_SECRET \in ConfiguredSecrets
    /\ db \in BOOLEAN
    /\ assets = [a \in AssetIds |-> Some(FullDoc)]
    /\ purchases = [k \in ReceiptIds |-> None]
    /\ now = 0
    /\ reqs = [r \in Requests |-> IdleRequest]
    /\ InitContacts


\* ------------------------------------------------- razorpay_webhook, locally
\* a handler without the missing-header check
SignatureMissing_never(signature) == FALSE

\* `if not signature` on request.headers.get('X-Razorpay-Signature', '')
SignatureMissing(signature) == signature.kind = "empty"

\* a dispatch that treats every named event as a capture
IsCaptured_any_event(event) == ~IsNone(event)

\* `if event == 'payment.captured'`
IsCaptured(event) == event = Some("payment.captured")

\* a check for an absent asset id only, letting the empty string through
AssetIdMissing_none_only(asset_id) == IsNone(asset_id)

\* `if not asset_id`
AssetIdMissing(asset_id) == ~Truthy(asset_id)

\* a handler without the store handle check
StoreUnavailable_never(handle) == FALSE

\* `if not db`
StoreUnavailable(handle) == ~handle

InternalError == ErrorResponse(500, "Internal server error")

Respond(q, resp) == [q EXCEPT !.pc = "done", !.resp = resp]

\* a dispatch that tests the store handle before the asset id
Dispatch_store_first(q, handle) ==
    LET data    == Decode(q.body)
        payment == data.entity
        notes   == payment.notes
        q1      == [q EXCEPT !.event = data.event]
    IN  IF IsCaptured(data.event)
        THEN IF notes.kind = "list"
             THEN \* notes.get on a list: AttributeError, caught below
                  Respond([q1 EXCEPT !.payment = payment], InternalError)
             ELSE LET q2 == [q1 EXCEPT !.payment = payment,
                                       !.asset_id = notes.asset_id]
                  IN  IF StoreUnavailable(handle)
                      THEN Respond(q2, ErrorResponse(500, "Database not available"))
                      ELSE IF AssetIdMissing(notes.asset_id)
                      THEN Respond(q2, ErrorResponse(400, "Asset ID missing"))
                      ELSE [q2 EXCEPT !.pc = "lookup"]
        ELSE Respond(q1, MessageResponse("Event received"))

\* After data = request.get_json() succeeded: event dispatch, extraction of
\* the payment entity, the asset id check and the store handle check.
Dispatch(q, handle) ==
    LET data    == Decode(q.body)
        payment == data.entity
        notes   == payment.notes
        q1      == [q EXCEPT !.event = data.event]
    IN  IF IsCaptured(data.event)
        THEN IF notes.kind = "list"
             THEN \* notes.get on a list: AttributeError, caught below
                  Respond([q1 EXCEPT !.payment = payment], InternalError)
             ELSE LET q2 == [q1 EXCEPT !.payment = payment,
                                       !.asset_id = notes.asset_id]
                  IN  IF AssetIdMissing(notes.asset_id)
                      THEN Respond(q2, ErrorResponse(400, "Asset ID missing"))
                      ELSE IF StoreUnavailable(handle)
                      THEN Respond(q2, ErrorResponse(500, "Database not available"))
                      ELSE [q2 EXCEPT !.pc = "lookup"]
        ELSE Respond(q1, MessageResponse("Event received"))

\* After the signature verified: parse the JSON body, then dispatch.
Parse(q, handle) ==
    LET q1 == [q EXCEPT !.parsed = TRUE]
    IN  IF get_json_raises(q.body, q.ctype)
        THEN Respond(q1, InternalError)
        ELSE Dispatch(q1, handle)

\* After the signature header was found: read the raw body and verify.
Verify(q, secret, handle) ==
    LET v  == verify_webhook_signature(q.body, q.signature, secret)
        q1 == [q EXCEPT !.bodyRead = TRUE, !.verifyResult = v]
    IN  CASE v = "TypeError" -> Respond(q1, InternalError)
          [] v = "False"     -> Respond(q1, ErrorResponse(403, "Invalid signature"))
          [] OTHER           -> Parse(q1, handle)

\* The handler from its entry to its first store access or its response.
HandleLocal(q, secret, handle) ==
    IF SignatureMissing(q.signature)
    THEN Respond(q, ErrorResponse(400, "Signature missing"))
    ELSE Verify(q, secret, handle)

\* Requests a sender may deliver: every body signed under the first secret;
\* two bodies also unsigned, with a non-ASCII signature, signed under the
\* empty secret, under another secret, or with the digest of another body;
\* and two correctly signed bodies under a non-JSON Content-Type.
ForgedSignatures(b) ==
    {EmptySig, NonAsciiSig, HMAC("", b), HMAC("whsec_B", b),
     HMAC("whsec_A", "B_failed")}
Deliveries ==
    {[body |-> b, signature |-> HMAC("whsec_A", b),
      ctype |-> "application/json"] : b \in Bodies}
    \cup UNION {{[body |-> b, signature |-> sig,
                  ctype |-> "application/json"] : sig \in ForgedSignatures(b)} :
                b \in {"B_ok", "B_notjson"}}
    \cup {[body |-> b, signature |-> HMAC("whsec_A", b),
           ctype |-> "text/plain"] : b \in {"B_ok", "B_failed"}}

\* d repeats a delivery that was already answered with success
IsRedelivery(d) ==
    \E p \in Requests :
        /\ reqs[p].pc = "done" /\ reqs[p].resp.key = "success"
        /\ reqs[p].body = d.body /\ reqs[p].signature = d.signature
        /\ reqs[p].ctype = d.ctype

\* A request arrives and runs up to its first store access or its response.
Receive(r) ==
    /\ reqs[r].pc = "idle"
    /\ \A p \in Requests : p < r => reqs[p].pc # "idle"  \* numbered by arrival
    /\ \E d \in Deliveries :
            reqs' = [reqs EXCEPT ![r] =
                        HandleLocal([IdleRequest EXCEPT !.body = d.body,
                                                        !.signature = d.signature,
                                                        !.ctype = d.ctype,
                                                        !.redelivery = IsRedelivery(d)],
                                    RAZORPAY_WEBHOOK_SECRET, db)]
    /\ UNCHANGED <<RAZORPAY_WEBHOOK_SECRET, db, assets, purchases, now>>
    /\ UNCHANGED mailVars

\* ------------------------------------------------------ the purchase workflow
\* an existence test that takes every known id for an existing document
AssetExists_any_id(store, id) == id \in AssetIds

\* asset_doc.exists for db.collection('assets').document(id).get()
AssetExists(store, id) == id \in AssetIds /\ store[id] # None

\* asset_ref.get(): a missing item answers 404, else keep asset_doc.to_dict()
Lookup(r) ==
    LET q  == reqs[r]
        id == q.asset_id[1]
        q1 == [q EXCEPT !.lookups = @ + 1]
    IN  /\ q.pc = "lookup"
        /\ reqs' = [reqs EXCEPT ![r] =
                      IF AssetExists(assets, id)
                      THEN [q1 EXCEPT !.pc = "write",
                                      !.asset_data = assets[id]]
                      ELSE Respond(q1, ErrorResponse(404, "Asset not found"))]
        /\ UNCHANGED <<RAZORPAY_WEBHOOK_SECRET, db, assets, purchases, now>>
        /\ UNCHANGED mailVars

\* a failing lookup whose exception leaves the handler without a response
LookupFails_propagates(r) ==
    /\ reqs[r].pc = "lookup"
    /\ reqs' = [reqs EXCEPT ![r] = [reqs[r] EXCEPT !.pc = "crashed",
                                                   !.lookups = @ + 1]]
    /\ UNCHANGED <<RAZORPAY_WEBHOOK_SECRET, db, assets, purchases, now>>
    /\ UNCHANGED mailVars

\* asset_ref.get() raises: caught by the handler's except clause
LookupFails(r) ==
    /\ reqs[r].pc = "lookup"
    /\ reqs' = [reqs EXCEPT ![r] =
                  Respond([reqs[r] EXCEPT !.lookups = @ + 1], InternalError)]
    /\ UNCHANGED <<RAZORPAY_WEBHOOK_SECRET, db, assets, purchases, now>>
    /\ UNCHANGED mailVars

\* a record built with the item's price and download link exchanged
BuildPurchaseData_mixed(q, rid, t) ==
    LET doc == q.asset_data[1]
    IN  [receiptId         |-> rid,
         assetId           |-> q.asset_id[1],
         assetName         |-> GetOr(doc.title, "Unknown Asset"),
         price             |-> GetOr(doc.downloadLink, "N/A"),
         downloadLink      |-> GetOr(doc.price, ""),
         purchaseDate      |-> t,
         buyerEmail        |-> q.payment.email,
         razorpayPaymentId |-> q.payment.id,
         razorpayAmount    |-> q.payment.amount,
         razorpayCurrency  |-> GetOr(q.payment.currency, "INR"),
         verified          |-> TRUE,
         createdAt         |-> "SERVER_TIMESTAMP"]

\* the purchase_data dict
BuildPurchaseData(q, rid, t) ==
    LET doc == q.asset_data[1]
    IN  [receiptId         |-> rid,
         assetId           |-> q.asset_id[1],
         assetName         |-> GetOr(doc.title, "Unknown Asset"),
         price             |-> GetOr(doc.price, "N/A"),
         downloadLink      |-> GetOr(doc.downloadLink, ""),
         purchaseDate      |-> t,
         buyerEmail        |-> q.payment.email,
         razorpayPaymentId |-> q.payment.id,
         razorpayAmount    |-> q.payment.amount,
         razorpayCurrency  |-> GetOr(q.payment.currency, "INR"),
         verified          |-> TRUE,
         createdAt         |-> "SERVER_TIMESTAMP"]

\* document(receipt_id).set(purchase_data): the document is stored under
\* key, replacing whatever was stored there
SetDocument(collection, key, data) ==
    [collection EXCEPT ![key] = Some(data)]

\* receipt_id = generate_receipt_id(); purchase_data = {...}
Generated(q, t, suffix) ==
    LET rid == generate_receipt_id(t, suffix)
    IN  [q EXCEPT !.receipt_id = rid,
                  !.purchase_data = Some(BuildPurchaseData(q, rid, t))]

\* the receipt id, the purchase record, the store write and the success
\* response
Write(r) ==
    /\ reqs[r].pc = "write"
    /\ \E suffix \in Suffixes :
         LET q == Generated(reqs[r], now, suffix)
         IN  /\ purchases' = SetDocument(purchases, q.receipt_id,
                                         q.purchase_data[1])
             /\ reqs' = [reqs EXCEPT ![r] =
                           Respond([q EXCEPT !.writes = @ + 1],
                                   SuccessResponse(q.receipt_id))]
    /\ UNCHANGED <<RAZORPAY_WEBHOOK_SECRET, db, assets, now>>
    /\ UNCHANGED mailVars

\* a failing write that leaves its record in the store before it answers
WriteFails_partial(r) ==
    /\ reqs[r].pc = "write"
    /\ \E suffix \in Suffixes :
         LET q == Generated(reqs[r], now, suffix)
         IN  /\ purchases' = SetDocument(purchases, q.receipt_id,
                                         q.purchase_data[1])
             /\ reqs' = [reqs EXCEPT ![r] = Respond(reqs[r], InternalError)]
    /\ UNCHANGED <<RAZORPAY_WEBHOOK_SECRET, db, assets, now>>
    /\ UNCHANGED mailVars

\* set() raises: caught by the handler's except clause, nothing stored (the
\* receipt id and the record were locals of the failed request)
WriteFails(r) ==
    /\ reqs[r].pc = "write"
    /\ reqs' = [reqs EXCEPT ![r] = Respond(reqs[r], InternalError)]
    /\ UNCHANGED <<RAZORPAY_WEBHOOK_SECRET, db, assets, purchases, now>>
    /\ UNCHANGED mailVars

\* ------------------------------------------------------------- environment
\* The item is edited or deleted by its owner (outside the handler).
EditAsset ==
    /\ \E a \in AssetIds, d \in {None} \cup {Some(x) : x \in AssetDocs} :
         /\ assets[a] # d
         /\ assets' = [assets EXCEPT ![a] = d]
    /\ UNCHANGED <<RAZORPAY_WEBHOOK_SECRET, db, purchases, now, reqs>>
    /\ UNCHANGED mailVars

\* time.time() advances
Tick ==
    /\ now < MaxClock
    /\ now' = now + 1
    /\ UNCHANGED <<RAZORPAY_WEBHOOK_SECRET, db, assets, purchases, reqs>>
    /\ UNCHANGED mailVars

Next ==
    \/ \E r \in Requests : Receive(r)
    \/ \E r \in Requests : Lookup(r)
    \/ \E r \in Requests : LookupFails(r)
    \/ \E r \in Requests : Write(r)
    \/ \E r \in Requests : WriteFails(r)
    \/ EditAsset
    \/ Tick

Spec == Init /\ [][Next]_vars

\* A store call in progress returns or raises: the handler blocks on
\* asset_ref.get() and on set() and continues when the call ends.
Fairness ==
    \A r \in Requests :
        /\ WF_vars(Lookup(r) \/ LookupFails(r))
        /\ WF_vars(Write(r) \/ WriteFails(r))

FairSpec == Spec /\ Fairness

\* ------------------------------------------------- send_contact_emails
\* the confirmation email to the submitter
UserEmail(c, form) ==
    [by |-> c, kind |-> "confirmation", to |-> form.from_email,
     reply_to |-> None, subject |-> "Thanks for reaching out!"]

\* the notification email to the admin
AdminEmail(c, form) ==
    [by |-> c, kind |-> "notification", to |-> "contact@rajuvisuals.com",
     reply_to |-> Some(form.from_email), subject |-> form.subject]

\* an except clause that turns the failure into an HTTP error
SendFailed_http_error(q, e) ==
    [q EXCEPT !.pc = "done",
              !.resp = [http |-> 500, success |-> FALSE, message |-> e,
                        skipped |-> FALSE, error |-> None]]

\* the except clause: the failure is returned in the response body
SendFailed(q, e) ==
    [q EXCEPT !.pc = "done",
              !.resp = ContactFormResponse(FALSE, "Failed to send emails",
                                           FALSE, Some(e))]

\* a handler that does not look at email_enabled
Submit_ignores_flag(c) ==
    /\ contacts[c].pc = "idle"
    /\ \A p \in Contacts : p < c => contacts[p].pc # "idle"
    /\ \E form \in ContactForms :
         contacts' = [contacts EXCEPT ![c] =
                        [IdleContact EXCEPT !.form = form, !.pc = "send_user"]]
    /\ UNCHANGED <<hookVars, outbox>>

\* a submission arrives; with email_enabled false it is answered at once
Submit(c) ==
    /\ contacts[c].pc = "idle"
    /\ \A p \in Contacts : p < c => contacts[p].pc # "idle"
    /\ \E form \in ContactForms :
         contacts' = [contacts EXCEPT ![c] =
            IF ~form.email_enabled
            THEN [IdleContact EXCEPT
                    !.form = form, !.pc = "done",
                    !.resp = ContactFormResponse(TRUE,
                               "Email sending is disabled. Form data saved.",
                               TRUE, None)]
            ELSE [IdleContact EXCEPT !.form = form, !.pc = "send_user"]]
    /\ UNCHANGED <<hookVars, outbox>>

\* resend.Emails.send(user_email_params) returns
SendUser(c) ==
    /\ contacts[c].pc = "send_user"
    /\ outbox' = outbox \cup {UserEmail(c, contacts[c].form)}
    /\ contacts' = [contacts EXCEPT ![c].pc = "send_admin",
                                    ![c].userSends = @ + 1]
    /\ UNCHANGED hookVars

\* a failed confirmation send after which the handler goes on to the
\* notification send
SendUserFails_continues(c) ==
    /\ contacts[c].pc = "send_user"
    /\ contacts' = [contacts EXCEPT ![c].pc = "send_admin",
                                    ![c].userSends = @ + 1]
    /\ UNCHANGED <<hookVars, outbox>>

\* resend.Emails.send(user_email_params) raises
SendUserFails(c) ==
    /\ contacts[c].pc = "send_user"
    /\ \E e \in SendErrors :
         contacts' = [contacts EXCEPT ![c] =
                        SendFailed([contacts[c] EXCEPT !.userSends = @ + 1], e)]
    /\ UNCHANGED <<hookVars, outbox>>

\* resend.Emails.send(admin_email_params) returns
SendAdmin(c) ==
    /\ contacts[c].pc = "send_admin"
    /\ outbox' = outbox \cup {AdminEmail(c, contacts[c].form)}
    /\ contacts' = [contacts EXCEPT
                      ![c].pc = "done", ![c].adminSends = @ + 1,
                      ![c].resp = ContactFormResponse(TRUE,
                                    "Emails sent successfully", FALSE, None)]
    /\ UNCHANGED hookVars

\* resend.Emails.send(admin_email_params) raises
SendAdminFails(c) ==
    /\ contacts[c].pc = "send_admin"
    /\ \E e \in SendErrors :
         contacts' = [contacts EXCEPT ![c] =
                        SendFailed([contacts[c] EXCEPT !.adminSends = @ + 1], e)]
    /\ UNCHANGED <<hookVars, outbox>>

ContactInit ==
    /\ RAZORPAY_WEBHOOK_SECRET = ""
    /\ db = FALSE
    /\ assets = [a \in AssetIds |-> Some(FullDoc)]
    /\ purchases = [k \in ReceiptIds |-> None]
    /\ now = 0
    /\ reqs = [r \in Requests |-> IdleRequest]
    /\ InitContacts

ContactNext ==
    \/ \E c \in Contacts : Submit(c)
    \/ \E c \in Contacts : SendUser(c)
    \/ \E c \in Contacts : SendUserFails(c)
    \/ \E c \in Contacts : SendAdmin(c)
    \/ \E c \in Contacts : SendAdminFails(c)

ContactSpec == ContactInit /\ [][ContactNext]_vars


\* =================================================================== claims
Answered(q) == q.pc = "done"
Stored == {k \in DOMAIN purchases : purchases[k] # None}
\* the signature q carries is the digest of q's raw body under the
\* configured secret
CorrectlySigned(q) == q.signature = HMAC(RAZORPAY_WEBHOOK_SECRET, q.body)
\* the body names the event payment.captured
CapturedEvent(b) == Decode(b).event = Some("payment.captured")
\* q passed verification and its body decoded to a JSON object
Decoded(q) ==
    /\ q.pc # "idle"
    /\ CorrectlySigned(q) /\ RAZORPAY_WEBHOOK_SECRET # ""
    /\ ~get_json_raises(q.body, q.ctype)

\* C1: every document in purchases was written by a request whose signature
\* verified against the configured secret over its raw body, and has
\* verified = true.
C1_OnlyVerifiedPersisted ==
    \A k \in Stored :
        /\ purchases[k][1].verified = TRUE
        /\ \E r \in Requests :
              /\ reqs[r].writes = 1
              /\ reqs[r].receipt_id = k
              /\ reqs[r].purchase_data = purchases[k]
              /\ reqs[r].verifyResult = "True"
              /\ CorrectlySigned(reqs[r])

C1_Witness ==
    \E r \in Requests :
        /\ reqs[r].writes = 1
        /\ purchases[reqs[r].receipt_id] = reqs[r].purchase_data
        /\ \E p \in Requests :
              /\ Answered(reqs[p]) /\ reqs[p].resp.status = 403
              /\ reqs[p].body = reqs[r].body

\* C2: with an empty configured secret, verification answers false (it does
\* not raise) for every payload and signature, the digest under the empty
\* key included, and no purchase record is ever written.
C2_EmptySecretFailsClosed ==
    RAZORPAY_WEBHOOK_SECRET = "" =>
        /\ Stored = {}
        /\ \A r \in Requests :
              /\ reqs[r].writes = 0
              /\ reqs[r].bodyRead => reqs[r].verifyResult = "False"
              /\ \A sig \in ForgedSignatures(reqs[r].body)
                              \cup {HMAC(s, reqs[r].body) : s \in Secrets} :
                    verify_webhook_signature(reqs[r].body, sig,
                                             RAZORPAY_WEBHOOK_SECRET) = "False"

C2_Witness ==
    /\ RAZORPAY_WEBHOOK_SECRET = ""
    /\ \E r \in Requests :
          /\ Answered(reqs[r])
          /\ reqs[r].signature = HMAC("", reqs[r].body)
          /\ reqs[r].resp = ErrorResponse(403, "Invalid signature")
    /\ \E r \in Requests :
          /\ Answered(reqs[r])
          /\ reqs[r].signature = NonAsciiSig
          /\ reqs[r].resp = ErrorResponse(403, "Invalid signature")

\* C3 as stated, of the verifications the handler performs: for all payloads
\* P and all secrets S, the empty one included, verify(P, HMAC(S,P), S) is
\* true, and verify(P, HMAC(S,P), S2) is false when S2 # S.
C3_AsStated ==
    \A r \in Requests : \A S \in Secrets :
        (reqs[r].bodyRead /\ reqs[r].signature = HMAC(S, reqs[r].body)) =>
            /\ S = RAZORPAY_WEBHOOK_SECRET => reqs[r].verifyResult = "True"
            /\ S # RAZORPAY_WEBHOOK_SECRET => reqs[r].verifyResult = "False"

\* C3 amended: for all payloads P and all non-empty secrets S,
\* verify(P, HMAC(S,P), S) is true; for all P, S and S2 # S,
\* verify(P, HMAC(S,P), S2) is false; and under the empty secret the
\* digest HMAC("",P) is rejected.
C3_VerifyNonEmptySecret ==
    \A r \in Requests :
        reqs[r].bodyRead =>
            LET P == reqs[r].body
            IN  /\ \A S \in Secrets :
                      reqs[r].signature = HMAC(S, P) =>
                          (reqs[r].verifyResult = "True" <=>
                              (S = RAZORPAY_WEBHOOK_SECRET /\ S # ""))
                /\ \A S \in Secrets, S2 \in Secrets :
                      verify_webhook_signature(P, HMAC(S, P), S2) =
                          (IF S2 = S /\ S # "" THEN "True" ELSE "False")

C3_Witness ==
    /\ RAZORPAY_WEBHOOK_SECRET # ""
    /\ \E r \in Requests :
          /\ reqs[r].signature = HMAC(RAZORPAY_WEBHOOK_SECRET, reqs[r].body)
          /\ reqs[r].verifyResult = "True"
    /\ \E r \in Requests :
          /\ reqs[r].signature = HMAC("whsec_B", reqs[r].body)
          /\ reqs[r].verifyResult = "False"

\* C4: a request without a signature is answered 400 'Signature missing'
\* before its body is read, before verification, before JSON parsing and
\* before any store access; the step leaves the store as it was.
C4_MissingSignatureRejectedFirst ==
    [][\A r \in Requests :
         (reqs[r].pc = "idle" /\ reqs'[r].pc # "idle"
            /\ reqs'[r].signature = EmptySig) =>
               /\ Answered(reqs'[r])
               /\ reqs'[r].resp = ErrorResponse(400, "Signature missing")
               /\ ~reqs'[r].bodyRead
               /\ reqs'[r].verifyResult = ""
               /\ ~reqs'[r].parsed
               /\ reqs'[r].lookups = 0 /\ reqs'[r].writes = 0
               /\ UNCHANGED <<assets, purchases>>]_vars

C4_Witness ==
    \E r \in Requests :
        /\ reqs[r].signature = EmptySig
        /\ reqs[r].body = "B_notjson"
        /\ Answered(reqs[r])
        /\ reqs[r].resp = ErrorResponse(400, "Signature missing")

\* C5: a request with a non-empty signature that is not the digest of its
\* raw body under the configured secret is answered 403 'Invalid signature';
\* the parser is not invoked and the store is neither read nor written.
C5_ForgedSignatureAnswered403 ==
    \A r \in Requests :
        (reqs[r].pc # "idle" /\ reqs[r].signature # EmptySig
            /\ ~CorrectlySigned(reqs[r])) =>
               /\ Answered(reqs[r])
               /\ reqs[r].resp = ErrorResponse(403, "Invalid signature")
               /\ ~reqs[r].parsed
               /\ reqs[r].lookups = 0 /\ reqs[r].writes = 0

\* C6: an accepted payment.captured request makes exactly one write to
\* purchases, under the generated receipt id; the record carries the asset id
\* and the item's title, price and download link as its lookup read them,
\* the payment's id, amount, currency and email, and the 200 response
\* carries success and that receipt id.
C6_AcceptedWritesOneSnapshot ==
    [][\A r \in Requests :
         /\ reqs'[r].writes = (IF reqs'[r].resp.key = "success" THEN 1 ELSE 0)
         /\ (reqs[r].pc = "write" /\ reqs'[r].resp.key = "success") =>
              LET q   == reqs'[r]
                  k   == q.receipt_id
                  rec == q.purchase_data[1]
                  doc == reqs[r].asset_data[1]
                  ev  == Decode(q.body).entity
              IN  /\ Decoded(q) /\ CapturedEvent(q.body)
                  /\ q.lookups = 1
                  /\ k \in DOMAIN purchases
                  /\ purchases' = [purchases EXCEPT ![k] = Some(rec)]
                  /\ rec.receiptId = k
                  /\ Some(rec.assetId) = ev.notes.asset_id
                  /\ doc.title # None => Some(rec.assetName) = doc.title
                  /\ doc.price # None => Some(rec.price) = doc.price
                  /\ doc.downloadLink # None =>
                        Some(rec.downloadLink) = doc.downloadLink
                  /\ rec.razorpayPaymentId = ev.id
                  /\ rec.razorpayAmount = ev.amount
                  /\ rec.razorpayCurrency = GetOr(ev.currency, "INR")
                  /\ rec.buyerEmail = ev.email
                  /\ q.resp = SuccessResponse(k)]_vars

\* an accepted request whose item was edited after its lookup: the stored
\* record holds the item as the lookup read it
C6_Witness ==
    \E r \in Requests :
        /\ reqs[r].resp.key = "success"
        /\ reqs[r].asset_data = Some(FullDoc)
        /\ assets["asset_42"] = Some(EditedDoc)
        /\ purchases[reqs[r].receipt_id] = reqs[r].purchase_data
        /\ reqs[r].purchase_data[1].assetName = "Pack v1"
        /\ reqs[r].purchase_data[1].price = "499"

\* C7: for each gateway payment id there is at most one purchase record, and
\* exactly one once a webhook for that payment has been accepted.
RecordsOf(pid) ==
    {k \in Stored : purchases[k][1].razorpayPaymentId = pid}
Accepted(pid) ==
    \E r \in Requests :
        reqs[r].resp.key = "success" /\ reqs[r].payment.id = pid
C7_OneRecordPerPayment ==
    \A b \in Bodies :
        LET pid == Decode(b).entity.id
        IN  pid # None =>
              /\ Cardinality(RecordsOf(pid)) <= 1
              /\ Accepted(pid) => Cardinality(RecordsOf(pid)) = 1

\* C8: when a redelivery of an already accepted webhook is accepted, the
\* store holds the first delivery's record unchanged and a second record
\* with the same payment id under a different receipt id.
C8_RedeliveryAddsSecondRecord ==
    [][\A r \in Requests :
         (reqs[r].pc = "write" /\ reqs[r].redelivery
            /\ reqs'[r].resp.key = "success") =>
              \A p \in Requests :
                 (p # r /\ reqs[p].resp.key = "success"
                    /\ reqs[p].body = reqs[r].body) =>
                       /\ reqs'[r].receipt_id # reqs[p].receipt_id
                       /\ purchases'[reqs[p].receipt_id] =
                             purchases[reqs[p].receipt_id]
                       /\ purchases'[reqs[p].receipt_id] # None
                       /\ purchases'[reqs'[r].receipt_id] # None
                       /\ purchases'[reqs'[r].receipt_id][1].razorpayPaymentId
                             = purchases'[reqs[p].receipt_id][1].razorpayPaymentId
      ]_vars

\* C9: a verified request whose event type is not payment.captured is
\* answered 200 'Event received' without any store read or write, whether or
\* not the store is available.
C9_OtherEventsAcknowledged ==
    \A r \in Requests :
        (Decoded(reqs[r]) /\ ~CapturedEvent(reqs[r].body)) =>
            /\ Answered(reqs[r])
            /\ reqs[r].resp = MessageResponse("Event received")
            /\ reqs[r].lookups = 0 /\ reqs[r].writes = 0

C9_Witness ==
    /\ ~db
    /\ \E r \in Requests :
          /\ Decoded(reqs[r]) /\ reqs[r].body = "B_failed"
          /\ reqs[r].resp = MessageResponse("Event received")
    /\ \E r \in Requests :
          /\ Decoded(reqs[r]) /\ reqs[r].body = "B_noevent"
          /\ reqs[r].resp = MessageResponse("Event received")

\* C10: a verified payment.captured event whose notes carry no asset_id, or
\* an empty one, is answered 400 'Asset ID missing' without any store write
\* (or read), whether or not the store is available.
LacksAssetId(b) ==
    LET notes == Decode(b).entity.notes
    IN  notes.kind \in {"absent", "mapping"} /\ ~Truthy(notes.asset_id)
HasAssetId(b) ==
    LET notes == Decode(b).entity.notes
    IN  notes.kind = "mapping" /\ Truthy(notes.asset_id)

\* C11: when the lookup of a verified payment.captured request returns and
\* finds no document under the asset id, the request is answered 404 'Asset
\* not found', nothing is written and no receipt id is generated.
C11_UnknownAssetAnswered404 ==
    [][\A r \in Requests :
         (reqs[r].pc = "lookup" /\ reqs'[r] # reqs[r]
            /\ assets[reqs[r].asset_id[1]] = None
            /\ reqs'[r].resp # InternalError) =>
               /\ Decoded(reqs[r]) /\ CapturedEvent(reqs[r].body)
               /\ Answered(reqs'[r])
               /\ reqs'[r].resp = ErrorResponse(404, "Asset not found")
               /\ reqs'[r].lookups = 1 /\ reqs'[r].writes = 0
               /\ reqs'[r].receipt_id = NoReceipt
               /\ reqs'[r].purchase_data = NoPurchaseData
               /\ UNCHANGED <<assets, purchases>>]_vars

C11_Witness ==
    \E r \in Requests :
        /\ reqs[r].body = "B_ok" /\ reqs[r].lookups = 1
        /\ reqs[r].resp = ErrorResponse(404, "Asset not found")
        /\ reqs[r].receipt_id = NoReceipt
        /\ Stored = {}

\* C12: when the store handle was not initialised, every verified
\* payment.captured event with a non-empty asset id is answered 500
\* 'Database not available' and no store operation is attempted.
C12_NoHandleAnswered500 ==
    ~db =>
        \A r \in Requests :
            (Decoded(reqs[r]) /\ CapturedEvent(reqs[r].body)
                /\ HasAssetId(reqs[r].body)) =>
                   /\ Answered(reqs[r])
                   /\ reqs[r].resp = ErrorResponse(500, "Database not available")
                   /\ reqs[r].lookups = 0 /\ reqs[r].writes = 0

C12_Witness ==
    /\ ~db
    /\ \E r \in Requests :
          /\ Decoded(reqs[r]) /\ reqs[r].body = "B_ok"
          /\ reqs[r].resp = ErrorResponse(500, "Database not available")

\* emails the provider accepted for submission c
SentFor(c) == {m \in outbox : m.by = c}

\* C13: when either send raises, send_contact_emails neither raises nor
\* answers with an HTTP failure: it returns a normal response body (HTTP
\* 200) whose error field carries the failure.
C13_SendFailureSwallowed ==
    [][\A c \in Contacts :
         (contacts[c].pc \in {"send_user", "send_admin"}
            /\ contacts'[c] # contacts[c] /\ SentFor(c)' = SentFor(c)) =>
               /\ contacts'[c].pc = "done"
               /\ contacts'[c].resp.http = 200
               /\ contacts'[c].resp.error # None
               /\ contacts'[c].resp.error[1] \in SendErrors
               /\ contacts'[c].resp.message = "Failed to send emails"
               /\ ~contacts'[c].resp.success
               /\ ~contacts'[c].resp.skipped]_vars

\* both kinds of failure: the confirmation send of one submission and the
\* notification send of another
C13_Witness ==
    \E c, d \in Contacts :
        /\ contacts[c].pc = "done" /\ contacts[c].userSends = 1
        /\ contacts[c].adminSends = 0 /\ SentFor(c) = {}
        /\ contacts[c].resp.http = 200 /\ contacts[c].resp.error # None
        /\ contacts[d].pc = "done" /\ contacts[d].adminSends = 1
        /\ Cardinality(SentFor(d)) = 1
        /\ contacts[d].resp.http = 200 /\ contacts[d].resp.error # None

\* C14: with email_enabled false no email is sent, neither the confirmation
\* nor the notification, and the response has success and skipped true.
C14_DisabledSendsNothing ==
    \A c \in Contacts :
        (contacts[c].pc # "idle" /\ ~contacts[c].form.email_enabled) =>
            /\ contacts[c].pc = "done"
            /\ contacts[c].userSends = 0 /\ contacts[c].adminSends = 0
            /\ SentFor(c) = {}
            /\ contacts[c].resp.http = 200
            /\ contacts[c].resp.success /\ contacts[c].resp.skipped
            /\ contacts[c].resp.error = None

C14_Witness ==
    \E c, d \in Contacts :
        /\ contacts[c].pc = "done" /\ ~contacts[c].form.email_enabled
        /\ contacts[c].resp.skipped
        /\ contacts[d].pc = "done" /\ contacts[d].form.email_enabled
        /\ Cardinality(SentFor(d)) = 2

\* C15: the key of every purchase write is fresh: the receipt id generated
\* for a request is not the key of a document already in purchases, so no
\* write overwrites a record, and every request answered with success has
\* its own record in the store from then on.
C15_FreshReceiptKeys ==
    [][\A r \in Requests :
         /\ (reqs[r].pc = "write" /\ reqs'[r].resp.key = "success") =>
               purchases[reqs'[r].receipt_id] = None
         /\ reqs'[r].resp.key = "success" =>
               purchases'[reqs'[r].receipt_id] = reqs'[r].purchase_data]_vars

\* C16: a stored purchase record keeps its assetName, price and downloadLink
\* in every later state, whatever happens to the item and whatever requests
\* are processed, and no step of the handler changes the assets collection.
C16_RecordIsSnapshot ==
    [][/\ \A k \in Stored :
            /\ purchases'[k] # None
            /\ purchases'[k][1].assetName = purchases[k][1].assetName
            /\ purchases'[k][1].price = purchases[k][1].price
            /\ purchases'[k][1].downloadLink = purchases[k][1].downloadLink
       /\ reqs' # reqs => assets' = assets]_vars

\* C17: a verified request whose body is not valid JSON, or is a JSON object
\* without an event field, is answered with a 4xx status, not 200 or 500,
\* and writes nothing.
C17_MalformedAnswered4xx ==
    \A r \in Requests :
        (reqs[r].pc # "idle" /\ CorrectlySigned(reqs[r])
            /\ RAZORPAY_WEBHOOK_SECRET # ""
            /\ reqs[r].ctype = "application/json"
            /\ (~Decode(reqs[r].body).valid
                  \/ Decode(reqs[r].body).event = None)) =>
               /\ Answered(reqs[r])
               /\ reqs[r].resp.status \in 400..499
               /\ reqs[r].writes = 0

\* q was answered 500 after its lookup or its write failed
StoreFailed(q) ==
    q.pc = "done" /\ q.lookups = 1 /\ q.writes = 0 /\ q.resp = InternalError

\* q carries the same body, signature and content type as p
SameDelivery(p, q) ==
    p.body = q.body /\ p.signature = q.signature /\ p.ctype = q.ctype

Rejected(q)     == q.resp.key = "error" /\ q.resp.status \in {400, 403, 404}
Acknowledged(q) == q.resp.key = "message" /\ q.resp.status = 200
AcceptedReq(q)  == q.resp.key = "success" /\ q.resp.status = 200
ServerError(q)  == q.resp.key = "error" /\ q.resp.status = 500

\* the number of terminal states q is in
TerminalCount(q) ==
    (IF Rejected(q) THEN 1 ELSE 0) + (IF Acknowledged(q) THEN 1 ELSE 0)
    + (IF AcceptedReq(q) THEN 1 ELSE 0) + (IF ServerError(q) THEN 1 ELSE 0)

\* C19: every request that arrived eventually returns; a request that
\* returned is in exactly one of the terminal states Rejected, Acknowledged,
\* Accepted, ServerError, a request still running has no response, and a
\* returned request's response never changes afterwards.
C19_EveryRequestAnswered ==
    /\ \A r \in Requests : (reqs[r].pc # "idle") ~> (reqs[r].pc = "done")
    /\ [](\A r \in Requests :
             /\ reqs[r].pc = "done" => TerminalCount(reqs[r]) = 1
             /\ reqs[r].pc # "done" => reqs[r].resp = NoResponse)
    /\ [][\A r \in Requests :
             reqs[r].pc = "done" => reqs'[r] = reqs[r]]_vars

\* requests ended in a server error after a store failure, in a rejection
\* and in an acceptance
C19_Witness ==
    \E p, r \in Requests :
        /\ reqs[p].pc = "done" /\ ServerError(reqs[p]) /\ reqs[p].lookups = 1
        /\ reqs[r].pc = "done" /\ AcceptedReq(reqs[r])

\* the checks of the handler, read off the delivery and the configuration
SignaturePresent(q) == q.signature # EmptySig
SignatureValid(q)   == RAZORPAY_WEBHOOK_SECRET # "" /\ CorrectlySigned(q)
BodyParsed(q)       == Decode(q.body).valid /\ q.ctype = "application/json"
NotesReadable(q)    == Decode(q.body).entity.notes.kind # "list"

\* q made no store access
NoStoreAccess(q) == q.lookups = 0 /\ q.writes = 0

\* C20: the checks run in the order signature present, signature valid,
\* event is payment.captured, asset id present, store available, item
\* exists; the first check that fails fixes the response whatever the later
\* checks would have found, and no later stage has run: the store is
\* reached only by a request that passed the first five, a request makes at
\* most one lookup and at most one write, and it writes only after its own
\* lookup found the item.
C20_ChecksInFixedOrder ==
    /\ [](\A r \in Requests :
           LET q == reqs[r]
           IN  q.pc # "idle" =>
                 /\ ~SignaturePresent(q) =>
                       /\ q.resp = ErrorResponse(400, "Signature missing")
                       /\ ~q.bodyRead /\ ~q.parsed /\ NoStoreAccess(q)
                 /\ (SignaturePresent(q) /\ ~SignatureValid(q)) =>
                       /\ q.resp \in {ErrorResponse(403, "Invalid signature"),
                                      InternalError}
                       /\ q.bodyRead /\ ~q.parsed /\ NoStoreAccess(q)
                 /\ (SignaturePresent(q) /\ SignatureValid(q)
                        /\ BodyParsed(q)) =>
                       /\ ~CapturedEvent(q.body) =>
                             /\ q.resp = MessageResponse("Event received")
                             /\ NoStoreAccess(q)
                       /\ (CapturedEvent(q.body) /\ NotesReadable(q)) =>
                             /\ ~HasAssetId(q.body) =>
                                   /\ q.resp = ErrorResponse(400, "Asset ID missing")
                                   /\ NoStoreAccess(q)
                             /\ (HasAssetId(q.body) /\ ~db) =>
                                   /\ q.resp = ErrorResponse(500, "Database not available")
                                   /\ NoStoreAccess(q)
                 /\ ~NoStoreAccess(q) =>
                       /\ SignaturePresent(q) /\ SignatureValid(q)
                       /\ BodyParsed(q) /\ CapturedEvent(q.body)
                       /\ HasAssetId(q.body) /\ db
                 /\ q.lookups <= 1 /\ q.writes <= 1
                 /\ q.pc = "lookup" => NoStoreAccess(q)
                 /\ q.pc = "write" =>
                       q.lookups = 1 /\ q.writes = 0 /\ q.asset_data # None
                 /\ q.writes = 1 => q.lookups = 1 /\ q.asset_data # None
                 /\ (q.pc = "done" /\ q.lookups = 1 /\ q.asset_data = None
                        /\ q.resp # InternalError) =>
                       /\ q.resp = ErrorResponse(404, "Asset not found")
                       /\ q.writes = 0)
    /\ [][\A r \in Requests :
            /\ reqs'[r].lookups # reqs[r].lookups =>
                  reqs[r].pc = "lookup" /\ reqs[r].writes = 0
            /\ reqs'[r].writes # reqs[r].writes =>
                  /\ reqs[r].pc = "write" /\ reqs[r].lookups = 1
                  /\ reqs[r].asset_data # None]_vars

\* one request was stopped at the event check although its body also
\* carries no asset id, and another passed every check and wrote its record
C20_Witness ==
    \E p, r \in Requests :
        /\ reqs[p].pc = "done" /\ SignatureValid(reqs[p]) /\ BodyParsed(reqs[p])
        /\ ~CapturedEvent(reqs[p].body) /\ ~HasAssetId(reqs[p].body)
        /\ reqs[p].resp = MessageResponse("Event received")
        /\ reqs[r].pc = "done" /\ reqs[r].lookups = 1 /\ reqs[r].writes = 1
        /\ reqs[r].resp.key = "success"

\* the confirmation send of submission c returned
ConfirmationSent(c) == UserEmail(c, contacts[c].form) \in outbox

\* C21: for a submission with email_enabled true the notification send is
\* attempted only after the confirmation send of the same submission
\* returned; when the confirmation send fails the notification send is never
\* attempted; each submission makes at most one send attempt of each kind.
C21_AdminSendAfterUserSend ==
    /\ [](\A c \in Contacts :
            /\ contacts[c].userSends <= 1 /\ contacts[c].adminSends <= 1
            /\ contacts[c].adminSends = 1 =>
                  contacts[c].userSends = 1 /\ ConfirmationSent(c)
            /\ contacts[c].pc = "send_admin" =>
                  /\ contacts[c].userSends = 1 /\ ConfirmationSent(c)
                  /\ contacts[c].adminSends = 0
            /\ (contacts[c].userSends = 1 /\ ~ConfirmationSent(c)) =>
                  /\ contacts[c].pc = "done"
                  /\ contacts[c].adminSends = 0
                  /\ \A m \in outbox : m.by # c)
    /\ [][\A c \in Contacts :
            /\ contacts'[c].userSends # contacts[c].userSends =>
                  /\ contacts[c].pc = "send_user"
                  /\ contacts[c].form.email_enabled
                  /\ contacts[c].userSends = 0 /\ contacts[c].adminSends = 0
            /\ contacts'[c].adminSends # contacts[c].adminSends =>
                  /\ contacts[c].pc = "send_admin"
                  /\ contacts[c].adminSends = 0
                  /\ ConfirmationSent(c)]_vars

\* one submission's confirmation send failed and it was answered without a
\* notification attempt; another sent both emails
C21_Witness ==
    \E c, d \in Contacts :
        /\ contacts[c].pc = "done" /\ contacts[c].form.email_enabled
        /\ contacts[c].userSends = 1 /\ ~ConfirmationSent(c)
        /\ contacts[c].adminSends = 0 /\ ~contacts[c].resp.success
        /\ contacts[d].pc = "done" /\ contacts[d].userSends = 1
        /\ contacts[d].adminSends = 1 /\ ConfirmationSent(d)
        /\ AdminEmail(d, contacts[d].form) \in outbox

============================================================================
